---- MODULE Spec2Model ----
(***************************************************************************)
(* Model of amalgamate_txt_to_gdoc.py: collect text files of a directory,  *)
(* assemble them into one text, obtain OAuth credentials, create a Google  *)
(* Doc and append the text to it in chunks.                                *)
(*                                                                         *)
(* A Python str is modelled as a sequence of one-character strings.        *)
(***************************************************************************)
EXTENDS Integers, Sequences, FiniteSets, TLC

VARIABLES
    \* harness around the pure function chunk_text(s, max_len)
    arg_s,            \* the argument s
    arg_max_len,      \* the argument max_len
    ret_chunks,       \* the list returned
    chunk_pc,         \* "call" before the call, "done" after, "idle" when unused
    \* the run of main()
    pc,               \* position of main()
    dirExists,        \* base_dir.exists()
    dirFiles,         \* the files below base_dir: a set of file records
    argPattern,       \* args.pattern
    argRecurse,       \* args.recurse
    argSort,          \* args.sort
    files,            \* the list gather_text_files returned
    combined,         \* the text build_combined_text returned
    tokenJson,        \* content of token.json: NoFile or a credentials record
    credentialsJson,  \* whether credentials.json exists
    creds,            \* the credentials get_credentials returned (NoCreds before)
    refreshCalls,     \* number of creds.refresh(Request()) calls made
    consentRuns,      \* number of flow.run_local_server() calls made
    secretsReads,     \* number of reads of credentials.json
    tokenWrites,      \* number of times token.json was opened for writing
    docId,            \* the created document's id (NoDoc before creation)
    remoteDoc,        \* text the remote document received, in order
    requests,         \* log of batchUpdate requests issued: [text, ok]
    pieceIdx,         \* 1-based index of the piece the append loop sends next
    printedUrl,       \* whether the "Created Google Doc" line was printed
    raised,           \* the exception that ended the run ("none" if none)
    exitStatus        \* process exit status, meaningful once pc = "exited"

chunkVars == <<arg_s, arg_max_len, ret_chunks, chunk_pc>>
mainVars == <<pc, dirExists, dirFiles, argPattern, argRecurse, argSort, files,
              combined, tokenJson, credentialsJson, creds, refreshCalls,
              consentRuns, secretsReads, tokenWrites, docId, remoteDoc,
              requests, pieceIdx, printedUrl, raised, exitStatus>>
vars == <<chunkVars, mainVars>>

(***************************************************************************)
(* Bounds of the model.                                                    *)
(***************************************************************************)
\* longest string handed to chunk_text by the harness
MaxStrLen == 4
\* largest max_len handed to chunk_text by the harness
MaxChunkLen == 3
\* max_len used by append_text_to_doc: the code's default of 45000, scaled
\* down so that assembled texts of a few hundred characters span many chunks
DefaultMaxLen == 40

(***************************************************************************)
(* Strings.                                                                *)
(***************************************************************************)
NL == "\n"

\* characters str.rstrip() with no argument strips
Whitespace == {" ", "\n", "\t", "\r"}

Min(a, b) == IF a < b THEN a ELSE b

\* Python slice s[i:j] for 0 <= i <= j (indices are clamped to len(s))
Slice(s, i, j) == SubSeq(s, Min(i, Len(s)) + 1, Min(j, Len(s)))

\* "".join(parts)
RECURSIVE Join(_)
Join(parts) == IF parts = <<>> THEN <<>> ELSE Head(parts) \o Join(Tail(parts))

\* s.rstrip()
RECURSIVE RStrip(_)
RStrip(s) ==
    IF s # <<>> /\ s[Len(s)] \in Whitespace
    THEN RStrip(SubSeq(s, 1, Len(s) - 1))
    ELSE s

\* "c" * n
Repeat(c, n) == [i \in 1..n |-> c]

(***************************************************************************)
(* chunk_text                                                              *)
(***************************************************************************)
\* list(range(0, n, step)) for step >= 1
Range0(n, step) == [k \in 1..((n + step - 1) \div step) |-> (k - 1) * step]

\* mutant: the trailing partial chunk is dropped
chunk_text_DropTail(s, max_len) ==
    [k \in 1..(Len(s) \div max_len) |->
        Slice(s, (k - 1) * max_len, (k - 1) * max_len + max_len)]

\* mutant: the slices are one character too long and overlap
chunk_text_Overlap(s, max_len) ==
    IF s # <<>>
    THEN [k \in 1..Len(Range0(Len(s), max_len)) |->
            Slice(s, Range0(Len(s), max_len)[k],
                     Range0(Len(s), max_len)[k] + max_len + 1)]
    ELSE <<>>

chunk_text(s, max_len) ==
    IF s # <<>>
    THEN [k \in 1..Len(Range0(Len(s), max_len)) |->
            Slice(s, Range0(Len(s), max_len)[k],
                     Range0(Len(s), max_len)[k] + max_len)]
    ELSE <<>>

(***************************************************************************)
(* Paths and the file system.                                              *)
(*                                                                         *)
(* A file record is [rel, readable, content, errmsg, mtime, ctime]: its    *)
(* path relative to base_dir (posix), whether read_text succeeds, the text *)
(* read_text returns (decoding done, undecodable bytes already replaced),  *)
(* str(e) of the exception read_text raises otherwise, and its stat times. *)
(***************************************************************************)
Str_hello == <<"h", "e", "l", "l", "o">>
Str_world == <<"w", "o", "r", "l", "d">>
Str_denied == <<"d", "e", "n", "i", "e", "d">>

\* args.directory.resolve()
base_dir == <<"/", "d">>

\* the files that may lie below base_dir
File_a == [rel |-> <<"a", ".", "t", "x", "t">>, content |-> Str_hello,
           mtime |-> 2, ctime |-> 1]
File_b == [rel |-> <<"b", ".", "t", "x", "t">>, content |-> Str_world,
           mtime |-> 1, ctime |-> 2]
File_B == [rel |-> <<"B", ".", "t", "x", "t">>, content |-> <<"x", " ", NL>>,
           mtime |-> 1, ctime |-> 3]
File_sub_a == [rel |-> <<"s", "/", "a", ".", "t", "x", "t">>, content |-> <<>>,
               mtime |-> 3, ctime |-> 3]
File_md == [rel |-> <<"n", ".", "m", "d">>, content |-> <<"m", NL>>,
            mtime |-> 4, ctime |-> 4]

Candidates == {File_a, File_b, File_B, File_sub_a, File_md}

\* a candidate as it lies on disk: readable, or failing with an OSError
OnDisk(c, readable) ==
    [rel |-> c.rel, readable |-> readable, content |-> c.content,
     errmsg |-> Str_denied, mtime |-> c.mtime, ctime |-> c.ctime]

\* every directory content over a set of candidates: each present or not,
\* and each present file readable or not
Directories(cands) ==
    { { OnDisk(c, c \in good) : c \in present } :
        <<present, good>> \in { pg \in (SUBSET cands) \X (SUBSET cands) :
                                  pg[2] \subseteq pg[1] } }

\* the Path of a file of the directory: base_dir / rel
AbsPath(f) == base_dir \o <<"/">> \o f.rel

\* the file a Path of the list refers to
FileAt(p) == CHOOSE f \in dirFiles : AbsPath(f) = p

\* p.name: the last component of the path
RECURSIVE PathName(_)
PathName(p) ==
    IF \E i \in 1..Len(p) : p[i] = "/"
    THEN PathName(Tail(p))
    ELSE p

\* f.is_relative_to(base_dir)
is_relative_to(p, base) ==
    /\ Len(p) >= Len(base)
    /\ SubSeq(p, 1, Len(base)) = base
    /\ (Len(p) = Len(base) \/ p[Len(base) + 1] = "/")

\* f.relative_to(base_dir), for f below base_dir
relative_to(p, base) ==
    IF Len(p) = Len(base) THEN <<".">> ELSE SubSeq(p, Len(base) + 2, Len(p))

\* code points of the characters in file names
Ord(c) ==
    CASE c = "." -> 46
      [] c = "/" -> 47
      [] c = "A" -> 65
      [] c = "B" -> 66
      [] c = "a" -> 97
      [] c = "b" -> 98
      [] c = "d" -> 100
      [] c = "m" -> 109
      [] c = "n" -> 110
      [] c = "s" -> 115
      [] c = "t" -> 116
      [] c = "x" -> 120

\* str.lower()
LowerChar(c) ==
    CASE c = "A" -> "a"
      [] c = "B" -> "b"
      [] OTHER -> c

Lower(s) == [i \in 1..Len(s) |-> LowerChar(s[i])]

\* s < t for Python strings
RECURSIVE StrLess(_, _)
StrLess(s, t) ==
    IF t = <<>> THEN FALSE
    ELSE IF s = <<>> THEN TRUE
    ELSE IF Head(s) # Head(t) THEN Ord(Head(s)) < Ord(Head(t))
    ELSE StrLess(Tail(s), Tail(t))

(***************************************************************************)
(* gather_text_files                                                       *)
(***************************************************************************)
\* the pattern main() hands to gather_text_files
Pat_txt == <<"*", ".", "t", "x", "t">>
Pat_rec == <<"*", "*", "/", "*", ".", "t", "x", "t">>
Pat_md == <<"*", ".", "m", "d">>

EffectivePattern(recurse, pattern) ==
    IF recurse /\ pattern = Pat_txt THEN Pat_rec ELSE pattern

\* the literal tail of a pattern "*<tail>" or "**/*<tail>"
RECURSIVE PatternTail(_)
PatternTail(pattern) ==
    IF \E i \in 1..Len(pattern) : pattern[i] = "*"
    THEN PatternTail(Tail(pattern))
    ELSE pattern

EndsWith(s, suffix) ==
    /\ Len(s) >= Len(suffix)
    /\ SubSeq(s, Len(s) - Len(suffix) + 1, Len(s)) = suffix

\* the paths directory.rglob(pattern) yields, as a set
RGlob(pattern) ==
    { AbsPath(f) : f \in { g \in dirFiles :
                             EndsWith(PathName(g.rel), PatternTail(pattern)) } }

\* the orders in which rglob may yield them
Orderings(S) ==
    { o \in [1..Cardinality(S) -> S] : \A i, j \in DOMAIN o : i # j => o[i] # o[j] }

\* key(p) < key(q) for the key of the sort mode
KeyLess(sort, p, q) ==
    CASE sort = "name" -> StrLess(Lower(PathName(p)), Lower(PathName(q)))
      [] sort = "mtime" -> FileAt(p).mtime < FileAt(q).mtime
      [] sort = "ctime" -> FileAt(p).ctime < FileAt(q).ctime

\* list.sort(key=...): stable, ascending
RECURSIVE InsertByKey(_, _, _)
InsertByKey(sort, x, sorted) ==
    IF sorted = <<>> THEN <<x>>
    ELSE IF KeyLess(sort, x, sorted[Len(sorted)])
         THEN Append(InsertByKey(sort, x, SubSeq(sorted, 1, Len(sorted) - 1)),
                     sorted[Len(sorted)])
         ELSE Append(sorted, x)

RECURSIVE SortByKey(_, _)
SortByKey(sort, list) ==
    IF list = <<>> THEN <<>>
    ELSE InsertByKey(sort, list[Len(list)],
                     SortByKey(sort, SubSeq(list, 1, Len(list) - 1)))

\* mutant: the list is returned in rglob order, unsorted
gather_text_files_Unsorted(globbed, sort) == globbed

\* gather_text_files, given the order rglob yielded the paths in
gather_text_files(globbed, sort) == SortByKey(sort, globbed)

(***************************************************************************)
(* read_file_text, build_combined_text                                     *)
(***************************************************************************)
\* number of hyphens in SEPARATOR
SeparatorHyphens == 72

SEPARATOR == <<NL>> \o Repeat("-", SeparatorHyphens) \o <<NL, NL>>

\* f"[Error reading {p}: {e}]\n"
ErrorMarker(p, msg) ==
    <<"[", "E", "r", "r", "o", "r", " ", "r", "e", "a", "d", "i", "n", "g", " ">>
        \o p \o <<":", " ">> \o msg \o <<"]", NL>>

\* mutant: the exception of read_text propagates (modelled as the value Raised)
Raised == <<"<raised>">>
read_file_text_NoCatch(p) ==
    IF FileAt(p).readable THEN FileAt(p).content ELSE Raised

read_file_text(p) ==
    IF FileAt(p).readable
    THEN FileAt(p).content
    ELSE ErrorMarker(p, FileAt(p).errmsg)

\* f"### {rel.as_posix()} ###\n\n"
Header(p) ==
    <<"#", "#", "#", " ">>
        \o (IF is_relative_to(p, base_dir) THEN relative_to(p, base_dir) ELSE p)
        \o <<" ", "#", "#", "#", NL, NL>>

\* header + body + SEPARATOR of one file
Part(p) == Header(p) \o read_file_text(p) \o SEPARATOR

build_combined_text(list) ==
    RStrip(Join([i \in 1..Len(list) |-> Part(list[i])])) \o <<NL>>

(***************************************************************************)
(* Credentials.                                                            *)
(*                                                                         *)
(* A credentials record is [token, expired, refresh_token]: the access     *)
(* token, whether its expiry has passed, and the refresh token; the string *)
(* "None" stands for Python's None.  token.json holds such a record.  The  *)
(* records NoFile and NoCreds stand for "no such file" and creds = None.   *)
(***************************************************************************)
\* token.json does not exist
NoFile == [token |-> "NoFile", expired |-> FALSE, refresh_token |-> "None"]
\* creds = None
NoCreds == [token |-> "NoCreds", expired |-> FALSE, refresh_token |-> "None"]

StoredCredentials ==
    [token : {"None", "old"}, expired : BOOLEAN, refresh_token : {"None", "rt"}]

\* creds.valid
Valid(c) == c.token # "None" /\ ~c.expired

\* creds loaded at the top of get_credentials
LoadedCreds(tokenFile) == IF tokenFile # NoFile THEN tokenFile ELSE NoCreds

\* mutant: the cached token is never trusted
NeedsAuth_Always(c) == TRUE

\* not creds or not creds.valid
NeedsAuth(c) == c = NoCreds \/ ~Valid(c)

\* mutant: any loaded credentials are refreshed
CanRefresh_AnyLoaded(c) == c # NoCreds

\* creds and creds.expired and creds.refresh_token
CanRefresh(c) == c # NoCreds /\ c.expired /\ c.refresh_token # "None"

\* creds after a successful creds.refresh(Request())
Refreshed(c) ==
    [token |-> "refreshed", expired |-> FALSE, refresh_token |-> c.refresh_token]

\* creds a successful flow.run_local_server() may return
Consented ==
    [token : {"consented"}, expired : {FALSE}, refresh_token : {"None", "rt2"}]

\* mutant: the token file is left as it was
TokenJsonWritten_Stale(old, c) == old

\* token.json after token.write(creds.to_json())
TokenJsonWritten(old, c) ==
    [token |-> c.token, expired |-> c.expired, refresh_token |-> c.refresh_token]

(***************************************************************************)
(* The remote document service.                                            *)
(***************************************************************************)
NoDoc == "NoDoc"

\* mutant: the text is inserted at the start of the body
InsertText_AtStart(doc, text) == text \o doc

\* insertText with endOfSegmentLocation: the text goes to the end of the body
InsertText(doc, text) == doc \o text

\* the pieces append_text_to_doc iterates over
Pieces == chunk_text(combined, DefaultMaxLen)

(***************************************************************************)
(* main()                                                                  *)
(***************************************************************************)
\* the process ends with an uncaught exception: status 1
Exit(exc) ==
    /\ pc' = "exited"
    /\ raised' = exc
    /\ exitStatus' = 1

\* mutant: an empty file list is not rejected
NoFilesMatched_Ignored(list) == FALSE

\* not files
NoFilesMatched(list) == list = <<>>

\* base_dir = args.directory.resolve(); if not base_dir.exists(): raise SystemExit
MainCheckDir ==
    /\ pc = "start"
    /\ IF ~dirExists
       THEN Exit("SystemExit")
       ELSE pc' = "gather" /\ UNCHANGED <<raised, exitStatus>>
    /\ UNCHANGED <<dirExists, dirFiles, argPattern, argRecurse, argSort, files,
                   combined, tokenJson, credentialsJson, creds, refreshCalls,
                   consentRuns, secretsReads, tokenWrites, docId, remoteDoc,
                   requests, pieceIdx, printedUrl>>
    /\ UNCHANGED chunkVars

\* pattern = ...; files = gather_text_files(...); if not files: raise SystemExit
MainGather ==
    /\ pc = "gather"
    /\ \E globbed \in Orderings(RGlob(EffectivePattern(argRecurse, argPattern))) :
        /\ files' = gather_text_files(globbed, argSort)
        /\ IF NoFilesMatched(files')
           THEN Exit("SystemExit")
           ELSE pc' = "build" /\ UNCHANGED <<raised, exitStatus>>
    /\ UNCHANGED <<dirExists, dirFiles, argPattern, argRecurse, argSort,
                   combined, tokenJson, credentialsJson, creds, refreshCalls,
                   consentRuns, secretsReads, tokenWrites, docId, remoteDoc,
                   requests, pieceIdx, printedUrl>>
    /\ UNCHANGED chunkVars

\* combined = build_combined_text(files, base_dir, args.encoding)
MainBuild ==
    /\ pc = "build"
    /\ combined' = build_combined_text(files)
    /\ pc' = "credentials"
    /\ UNCHANGED <<dirExists, dirFiles, argPattern, argRecurse, argSort, files,
                   tokenJson, credentialsJson, creds, refreshCalls,
                   consentRuns, secretsReads, tokenWrites, docId, remoteDoc,
                   requests, pieceIdx, printedUrl, raised, exitStatus>>
    /\ UNCHANGED chunkVars

\* creds = get_credentials(): the whole function, with the outcome of the
\* refresh request or of the consent flow chosen by the environment
MainGetCredentials ==
    /\ pc = "credentials"
    /\ LET loaded == LoadedCreds(tokenJson) IN
       IF ~NeedsAuth(loaded)
       THEN \* valid: returned as loaded
            /\ creds' = loaded
            /\ pc' = "create"
            /\ UNCHANGED <<tokenJson, refreshCalls, consentRuns, secretsReads,
                           tokenWrites, raised, exitStatus>>
       ELSE IF CanRefresh(loaded)
       THEN \* creds.refresh(Request()) succeeds or raises
            /\ refreshCalls' = refreshCalls + 1
            /\ UNCHANGED <<consentRuns, secretsReads>>
            /\ \E ok \in BOOLEAN :
                IF ok
                THEN /\ creds' = Refreshed(loaded)
                     /\ tokenJson' = TokenJsonWritten(tokenJson, creds')
                     /\ tokenWrites' = tokenWrites + 1
                     /\ pc' = "create"
                     /\ UNCHANGED <<raised, exitStatus>>
                ELSE /\ Exit("RefreshError")
                     /\ UNCHANGED <<creds, tokenJson, tokenWrites>>
       ELSE IF ~credentialsJson
       THEN \* raise FileNotFoundError
            /\ Exit("FileNotFoundError")
            /\ UNCHANGED <<creds, tokenJson, refreshCalls, consentRuns,
                           secretsReads, tokenWrites>>
       ELSE \* from_client_secrets_file, then run_local_server succeeds or raises
            /\ secretsReads' = secretsReads + 1
            /\ consentRuns' = consentRuns + 1
            /\ UNCHANGED refreshCalls
            /\ \E got \in Consented \cup {NoCreds} :
                IF got # NoCreds
                THEN /\ creds' = got
                     /\ tokenJson' = TokenJsonWritten(tokenJson, creds')
                     /\ tokenWrites' = tokenWrites + 1
                     /\ pc' = "create"
                     /\ UNCHANGED <<raised, exitStatus>>
                ELSE /\ Exit("FlowError")
                     /\ UNCHANGED <<creds, tokenJson, tokenWrites>>
    /\ UNCHANGED <<dirExists, dirFiles, argPattern, argRecurse, argSort, files,
                   combined, credentialsJson, docId, remoteDoc, requests,
                   pieceIdx, printedUrl>>
    /\ UNCHANGED chunkVars

\* doc_id = create_google_doc(args.title, creds): the request succeeds or raises
MainCreateDoc ==
    /\ pc = "create"
    /\ \E ok \in BOOLEAN :
        IF ok
        THEN /\ docId' = "doc1"
             /\ pieceIdx' = 1
             /\ pc' = "append"
             /\ UNCHANGED <<raised, exitStatus>>
        ELSE /\ Exit("HttpError")
             /\ UNCHANGED <<docId, pieceIdx>>
    /\ UNCHANGED <<dirExists, dirFiles, argPattern, argRecurse, argSort, files,
                   combined, tokenJson, credentialsJson, creds, refreshCalls,
                   consentRuns, secretsReads, tokenWrites, remoteDoc,
                   requests, printedUrl>>
    /\ UNCHANGED chunkVars

\* mutant: a failed insert is swallowed and the loop goes on to the next piece
AppendPiece_Continue ==
    /\ pc = "append"
    /\ pieceIdx <= Len(Pieces)
    /\ \E ok \in BOOLEAN :
        /\ requests' = Append(requests, [text |-> Pieces[pieceIdx], ok |-> ok])
        /\ remoteDoc' = IF ok THEN InsertText(remoteDoc, Pieces[pieceIdx])
                              ELSE remoteDoc
        /\ pieceIdx' = pieceIdx + 1
        /\ UNCHANGED <<pc, raised, exitStatus>>
    /\ UNCHANGED <<dirExists, dirFiles, argPattern, argRecurse, argSort, files,
                   combined, tokenJson, credentialsJson, creds, refreshCalls,
                   consentRuns, secretsReads, tokenWrites, docId, printedUrl>>
    /\ UNCHANGED chunkVars

\* one iteration of the loop of append_text_to_doc: batchUpdate(...).execute()
\* for the next piece; the service applies the insert, or the call raises
AppendPiece ==
    /\ pc = "append"
    /\ pieceIdx <= Len(Pieces)
    /\ \E ok \in BOOLEAN :
        /\ requests' = Append(requests, [text |-> Pieces[pieceIdx], ok |-> ok])
        /\ IF ok
           THEN /\ remoteDoc' = InsertText(remoteDoc, Pieces[pieceIdx])
                /\ pieceIdx' = pieceIdx + 1
                /\ UNCHANGED <<pc, raised, exitStatus>>
           ELSE /\ Exit("HttpError")
                /\ UNCHANGED <<remoteDoc, pieceIdx>>
    /\ UNCHANGED <<dirExists, dirFiles, argPattern, argRecurse, argSort, files,
                   combined, tokenJson, credentialsJson, creds, refreshCalls,
                   consentRuns, secretsReads, tokenWrites, docId, printedUrl>>
    /\ UNCHANGED chunkVars

\* append_text_to_doc returns; print(f"Created Google Doc: ..."); main returns
MainPrint ==
    /\ pc = "append"
    /\ pieceIdx > Len(Pieces)
    /\ printedUrl' = TRUE
    /\ pc' = "exited"
    /\ exitStatus' = 0
    /\ UNCHANGED <<dirExists, dirFiles, argPattern, argRecurse, argSort, files,
                   combined, tokenJson, credentialsJson, creds, refreshCalls,
                   consentRuns, secretsReads, tokenWrites, docId, remoteDoc,
                   requests, pieceIdx, raised>>
    /\ UNCHANGED chunkVars

(***************************************************************************)
(* Specifications.                                                         *)
(***************************************************************************)
\* the values of main's variables before main() runs
MainIdle ==
    /\ files = <<>>
    /\ combined = <<>>
    /\ creds = NoCreds
    /\ refreshCalls = 0
    /\ consentRuns = 0
    /\ secretsReads = 0
    /\ tokenWrites = 0
    /\ docId = NoDoc
    /\ remoteDoc = <<>>
    /\ requests = <<>>
    /\ pieceIdx = 0
    /\ printedUrl = FALSE
    /\ raised = "none"
    /\ exitStatus = 0

ChunkIdle ==
    /\ arg_s = <<>>
    /\ arg_max_len = 1
    /\ ret_chunks = <<>>
    /\ chunk_pc = "idle"

\* the files the run of main() may find
MainCandidates == {File_a, File_b, File_md}

\* Spec: one run of main() over every directory, argument, cached token and
\* outcome of the remote calls
Init ==
    /\ ChunkIdle
    /\ MainIdle
    /\ pc = "start"
    /\ dirExists \in BOOLEAN
    /\ dirFiles \in (IF dirExists THEN Directories(MainCandidates) ELSE {{}})
    /\ argPattern \in {Pat_txt, Pat_md}
    /\ argRecurse \in BOOLEAN
    /\ argSort \in {"name", "mtime", "ctime"}
    /\ tokenJson \in StoredCredentials \cup {NoFile}
    /\ credentialsJson \in BOOLEAN

Next ==
    \/ MainCheckDir
    \/ MainGather
    \/ MainBuild
    \/ MainGetCredentials
    \/ MainCreateDoc
    \/ AppendPiece
    \/ MainPrint

Spec == Init /\ [][Next]_vars

\* SpecAssemble: gather_text_files and build_combined_text over every
\* directory of the candidates, every sort mode and every rglob order
InitAssemble ==
    /\ ChunkIdle
    /\ MainIdle
    /\ pc = "gather"
    /\ dirExists = TRUE
    /\ dirFiles \in Directories(Candidates)
    /\ argPattern \in {Pat_txt, Pat_md}
    /\ argRecurse \in BOOLEAN
    /\ argSort \in {"name", "mtime", "ctime"}
    /\ tokenJson = NoFile
    /\ credentialsJson = FALSE

NextAssemble ==
    \/ MainGather
    \/ MainBuild

SpecAssemble == InitAssemble /\ [][NextAssemble]_vars

\* SpecChunk: chunk_text applied to every string and every max_len >= 1
\* within the bounds
ChunkAlphabet == {"a", "b", NL}

ChunkStrings == UNION { [1..n -> ChunkAlphabet] : n \in 0..MaxStrLen }

InitChunk ==
    /\ MainIdle
    /\ pc = "idle"
    /\ dirExists = FALSE
    /\ dirFiles = {}
    /\ argPattern = Pat_txt
    /\ argRecurse = FALSE
    /\ argSort = "name"
    /\ tokenJson = NoFile
    /\ credentialsJson = FALSE
    /\ arg_s \in ChunkStrings
    /\ arg_max_len \in 1..MaxChunkLen
    /\ ret_chunks = <<>>
    /\ chunk_pc = "call"

CallChunkText ==
    /\ chunk_pc = "call"
    /\ ret_chunks' = chunk_text(arg_s, arg_max_len)
    /\ chunk_pc' = "done"
    /\ UNCHANGED <<arg_s, arg_max_len>>
    /\ UNCHANGED mainVars

NextChunk == CallChunkText

SpecChunk == InitChunk /\ [][NextChunk]_vars

(***************************************************************************)
(* Claims.                                                                 *)
(***************************************************************************)

\* C1: for every string s and every max_len >= 1, joining the chunks that
\* chunk_text(s, max_len) returned, in the order returned, gives exactly s.
C1_ChunksJoinToInput ==
    chunk_pc = "done" => Join(ret_chunks) = arg_s

\* C1 witness: a string whose length is an exact multiple (twice) of max_len
\* was split into two chunks
C1_Witness ==
    /\ chunk_pc = "done"
    /\ arg_max_len >= 2
    /\ Len(arg_s) = 2 * arg_max_len
    /\ Len(ret_chunks) = 2

\* C2: for non-empty s and max_len >= 1 every chunk is non-empty and at most
\* max_len long, and every chunk but the last is exactly max_len long; for
\* the empty string no chunk is returned.
C2_ChunkLengths ==
    chunk_pc = "done" =>
        /\ arg_s = <<>> => ret_chunks = <<>>
        /\ arg_s # <<>> =>
            /\ Len(ret_chunks) >= 1
            /\ \A k \in 1..Len(ret_chunks) :
                /\ Len(ret_chunks[k]) >= 1
                /\ Len(ret_chunks[k]) <= arg_max_len
                /\ k < Len(ret_chunks) => Len(ret_chunks[k]) = arg_max_len

\* C2 witness: several chunks, the last one shorter than max_len
C2_Witness ==
    /\ chunk_pc = "done"
    /\ Len(ret_chunks) >= 2
    /\ Len(ret_chunks[Len(ret_chunks)]) < arg_max_len

\* the cached token state as the claims name it
CachedValid == tokenJson # NoFile /\ tokenJson.token # "None" /\ ~tokenJson.expired

CachedRefreshable ==
    /\ tokenJson # NoFile
    /\ ~CachedValid
    /\ tokenJson.expired
    /\ tokenJson.refresh_token # "None"

ConsentNeeded == ~CachedValid /\ ~CachedRefreshable

\* C3: when token.json exists and the credentials loaded from it are valid,
\* get_credentials returns them without running the consent flow, without a
\* refresh request, without reading credentials.json, and leaves token.json
\* unchanged.
C3_ValidTokenUsedAsIs ==
    [][(pc = "credentials" /\ CachedValid) =>
        /\ pc' = "create"
        /\ creds' = tokenJson
        /\ consentRuns' = consentRuns
        /\ refreshCalls' = refreshCalls
        /\ secretsReads' = secretsReads
        /\ tokenWrites' = tokenWrites
        /\ tokenJson' = tokenJson]_vars

\* C3 witness: get_credentials has returned an unexpired cached token; a
\* refresh token was cached too and credentials.json exists, yet neither was
\* used
C3_Witness ==
    /\ pc = "create"
    /\ creds = tokenJson
    /\ creds.token = "old"
    /\ creds.refresh_token = "rt"
    /\ credentialsJson
    /\ tokenWrites = 0 /\ consentRuns = 0 /\ refreshCalls = 0 /\ secretsReads = 0

\* C4: when the consent flow is needed and credentials.json is absent,
\* get_credentials fails with a missing-file error before the flow starts;
\* token.json is neither created nor modified, no document is created, no
\* insert request is sent, and the process ends unsuccessfully.
C4_MissingSecretsIsFatal ==
    /\ [][(pc = "credentials" /\ ConsentNeeded /\ ~credentialsJson) =>
            /\ pc' = "exited"
            /\ raised' = "FileNotFoundError"
            /\ exitStatus' # 0
            /\ consentRuns' = consentRuns
            /\ refreshCalls' = refreshCalls
            /\ tokenWrites' = tokenWrites
            /\ tokenJson' = tokenJson]_vars
    /\ [](raised = "FileNotFoundError" =>
            /\ pc = "exited" /\ exitStatus # 0
            /\ consentRuns = 0 /\ tokenWrites = 0
            /\ docId = NoDoc /\ requests = <<>> /\ remoteDoc = <<>>
            /\ ~printedUrl)

\* C4 witness: the run ended with the missing-file error although token.json
\* held (invalid, not refreshable) credentials
C4_Witness ==
    /\ pc = "exited"
    /\ raised = "FileNotFoundError"
    /\ tokenJson # NoFile
    /\ tokenJson.refresh_token = "rt"

\* no file below base_dir matches the effective pattern
NothingMatches ==
    \A f \in dirFiles :
        ~EndsWith(f.rel, PatternTail(EffectivePattern(argRecurse, argPattern)))

\* C5: when the base directory does not exist, or exists but no file matches
\* the pattern, main ends with a non-zero status before any credential or
\* remote step: get_credentials is never called, no document is created, no
\* insert request is sent and no URL is printed.
C5_NoInputNoRemote ==
    (~dirExists \/ NothingMatches) =>
        /\ pc \in {"start", "gather", "exited"}
        /\ pc = "exited" => exitStatus # 0 /\ raised = "SystemExit"
        /\ pc # "exited" => ENABLED Next
        /\ creds = NoCreds
        /\ refreshCalls = 0 /\ consentRuns = 0
        /\ secretsReads = 0 /\ tokenWrites = 0
        /\ docId = NoDoc /\ requests = <<>> /\ remoteDoc = <<>>
        /\ ~printedUrl

\* C5 witness: the directory exists and holds files, none matched, and the
\* run has ended; a usable token was cached
C5_Witness ==
    /\ pc = "exited"
    /\ dirExists
    /\ dirFiles # {}
    /\ files = <<>>
    /\ CachedValid

\* C6: append_text_to_doc issues exactly one insert-at-end request per chunk
\* of chunk_text(text), in chunk order, each one only after the previous one
\* returned; when every request succeeds the content appended to the (empty)
\* new document equals the assembled text, and main prints the URL only after
\* the document was created and the last chunk's request succeeded.
C6_SequentialAppend ==
    /\ Len(requests) <= Len(Pieces)
    /\ \A i \in 1..Len(requests) :
        /\ requests[i].text = Pieces[i]
        /\ i < Len(requests) => requests[i].ok
    /\ pc = "append" => pieceIdx = Len(requests) + 1
    /\ (pc = "append" /\ pieceIdx > Len(Pieces)) => remoteDoc = combined
    /\ printedUrl =>
        /\ docId # NoDoc
        /\ Len(requests) = Len(Pieces)
        /\ \A i \in 1..Len(requests) : requests[i].ok
        /\ remoteDoc = combined

\* C6 witness: the URL was printed after a text of several chunks was sent
C6_Witness ==
    /\ printedUrl
    /\ Len(requests) >= 3
    /\ remoteDoc = combined

\* the body the claim C7 gives a file: the marker if reading fails, else the
\* content
C7_Body(p) ==
    LET f == CHOOSE g \in dirFiles : base_dir \o <<"/">> \o g.rel = p IN
    IF f.readable
    THEN f.content
    ELSE <<"[", "E", "r", "r", "o", "r", " ", "r", "e", "a", "d", "i", "n",
           "g", " ">> \o p \o <<":", " ">> \o f.errmsg \o <<"]", NL>>

\* C7: an unreadable file never aborts assembly: the result holds exactly
\* one contribution (header, body, SEPARATOR) per file, in collector order,
\* the body of a failing file being the marker
\* "[Error reading <path>: <message>]\n" and the body of every other file,
\* also of those after a failing one, its content.  (The result is the joined
\* contributions with the trailing whitespace replaced by one newline.)
C7_ReadErrorsEmbedded ==
    pc = "credentials" =>
        /\ combined \o <<NL>> =
            Join([i \in 1..Len(files) |->
                    Header(files[i]) \o C7_Body(files[i]) \o SEPARATOR])
        /\ combined[Len(combined) - 1] = "-"

\* C7 witness: three files or more were assembled, the first unreadable, the
\* second readable
C7_Witness ==
    /\ pc = "credentials"
    /\ Len(files) >= 3
    /\ ~FileAt(files[1]).readable
    /\ FileAt(files[2]).readable

\* the directory of C8: a.txt holding "hello" and b.txt holding "world"
C8_Directory ==
    /\ dirFiles = {OnDisk(File_a, TRUE), OnDisk(File_b, TRUE)}
    /\ argSort = "name"
    /\ pc = "credentials"

C8_HeaderA ==
    <<"#", "#", "#", " ", "a", ".", "t", "x", "t", " ", "#", "#", "#", NL, NL>>

C8_HeaderB ==
    <<"#", "#", "#", " ", "b", ".", "t", "x", "t", " ", "#", "#", "#", NL, NL>>

C8_Separator == <<NL>> \o [i \in 1..72 |-> "-"] \o <<NL, NL>>

\* C8 as stated: the assembled text of a.txt ("hello") and b.txt ("world"),
\* sorted by name, is "### a.txt ###\n\nhello\n" + SEPARATOR +
\* "### b.txt ###\n\nworld\n" + SEPARATOR, right-trimmed, plus one newline.
C8_AsStated ==
    C8_Directory =>
        combined = RStrip(C8_HeaderA \o Str_hello \o <<NL>> \o C8_Separator
                          \o C8_HeaderB \o Str_world \o <<NL>> \o C8_Separator)
                   \o <<NL>>

\* C8 amended: the assembled text is "### a.txt ###\n\nhello" + SEPARATOR +
\* "### b.txt ###\n\nworld" + SEPARATOR, right-trimmed, plus one newline: no
\* newline is put between a body and the SEPARATOR.
C8_Amended ==
    C8_Directory =>
        combined = RStrip(C8_HeaderA \o Str_hello \o C8_Separator
                          \o C8_HeaderB \o Str_world \o C8_Separator)
                   \o <<NL>>

\* C8 witness: the two files were assembled under sort mode name
C8_Witness ==
    /\ C8_Directory
    /\ Len(files) = 2
    /\ Len(combined) > 100

\* C9 as stated: get_credentials takes one path by the cached token state:
\* (1) valid: no refresh, no consent flow, token.json not written; (2)
\* expired with a refresh token: refresh performed, no consent flow,
\* token.json overwritten with the refreshed token; (3) otherwise: consent
\* flow run, no refresh, token.json overwritten with the new token; and
\* whenever it returns after (2) or (3) token.json holds the returned token.
C9_AsStated ==
    [][pc = "credentials" =>
        /\ CachedValid =>
            /\ refreshCalls' = refreshCalls
            /\ consentRuns' = consentRuns
            /\ tokenWrites' = tokenWrites
            /\ tokenJson' = tokenJson
        /\ CachedRefreshable =>
            /\ refreshCalls' = refreshCalls + 1
            /\ consentRuns' = consentRuns
            /\ tokenWrites' = tokenWrites + 1
            /\ tokenJson'.token = "refreshed"
        /\ ConsentNeeded =>
            /\ consentRuns' = consentRuns + 1
            /\ refreshCalls' = refreshCalls
            /\ tokenWrites' = tokenWrites + 1
            /\ tokenJson'.token = "consented"
        /\ (pc' = "create" /\ ~CachedValid) => tokenJson' = creds']_vars

\* C9 amended: (1) as stated; (2) expired with a refresh token: the refresh
\* is attempted and the consent flow is not run, and token.json is
\* overwritten with the refreshed token if the refresh succeeds and left
\* untouched if it raises; (3) otherwise: no refresh is performed; if
\* credentials.json is absent the flow is not run and token.json is left
\* untouched; if it exists the flow is run, and token.json is overwritten
\* with the new token if the flow succeeds and left untouched if it raises.
\* Whenever get_credentials returns after (2) or (3) token.json holds the
\* returned token.
C9_Amended ==
    [][pc = "credentials" =>
        /\ pc' \in {"create", "exited"}
        /\ CachedValid =>
            /\ pc' = "create"
            /\ refreshCalls' = refreshCalls
            /\ consentRuns' = consentRuns
            /\ tokenWrites' = tokenWrites
            /\ tokenJson' = tokenJson
        /\ CachedRefreshable =>
            /\ refreshCalls' = refreshCalls + 1
            /\ consentRuns' = consentRuns
            /\ IF pc' = "create"
               THEN tokenWrites' = tokenWrites + 1 /\ tokenJson'.token = "refreshed"
               ELSE tokenWrites' = tokenWrites /\ tokenJson' = tokenJson
        /\ ConsentNeeded =>
            /\ refreshCalls' = refreshCalls
            /\ consentRuns' = consentRuns + (IF credentialsJson THEN 1 ELSE 0)
            /\ IF pc' = "create"
               THEN /\ credentialsJson
                    /\ tokenWrites' = tokenWrites + 1
                    /\ tokenJson'.token = "consented"
               ELSE tokenWrites' = tokenWrites /\ tokenJson' = tokenJson
        /\ (pc' = "create" /\ ~CachedValid) => tokenJson' = creds']_vars

\* C9 witness: get_credentials returned after a refresh, and token.json holds
\* the refreshed token it returned
C9_Witness ==
    /\ pc = "create"
    /\ refreshCalls = 1
    /\ consentRuns = 0
    /\ tokenWrites = 1
    /\ creds.token = "refreshed"
    /\ tokenJson = creds

\* C10: no retry and no continuation after a remote failure: if document
\* creation fails no insert request is ever sent; if the insert of chunk k
\* fails it is not re-sent, no later chunk is sent, the failure ends main
\* with no URL printed, and the remote document holds exactly chunks
\* 1..k-1, joined.
C10_NoRetryNoContinuation ==
    /\ docId = NoDoc => requests = <<>> /\ remoteDoc = <<>>
    /\ \A k \in 1..Len(requests) :
        /\ requests[k].text = Pieces[k]
        /\ ~requests[k].ok =>
            /\ k = Len(requests)
            /\ pc = "exited"
            /\ raised = "HttpError"
            /\ exitStatus # 0
            /\ ~printedUrl
            /\ remoteDoc = Join(SubSeq(Pieces, 1, k - 1))
            /\ remoteDoc = SubSeq(combined, 1, Len(remoteDoc))

\* C10 witness: the third or a later insert failed after earlier ones had
\* been applied
C10_Witness ==
    /\ pc = "exited"
    /\ Len(requests) >= 3
    /\ ~requests[Len(requests)].ok
    /\ remoteDoc # <<>>

====
